---- MODULE Spec2Model ----
(***************************************************************************)
(* A model of three pieces of golucene's core/index package:               *)
(*   - SegmentCommitInfo (segmentInfoPerCommit.go): the per-commit state   *)
(*     layered on a read-only segment descriptor;                          *)
(*   - PerFieldPostingsWriter / PerFieldPostingsReader /                   *)
(*     PerFieldDocValuesReader (perfield.go): the per-field format         *)
(*     dispatchers of the write side and of the read side;                 *)
(*   - TermsHashPerField and PostingsBytesStartArray                      *)
(*     (invertedDocConsumerPerField.go): the per-field term builder chain  *)
(*     and the adapter that accounts for its postings columns.             *)
(* Each subsystem has its own specification over the shared variables.     *)
(* A Go panic is fatal: no recover() exists in these files, so an object   *)
(* whose method panicked takes no further step.                            *)
(* int64 fields are modelled as unbounded integers: the guards keep every  *)
(* counter far below 2^63, where Go's wrap-around would start.             *)
(***************************************************************************)
EXTENDS Integers, Sequences, FiniteSets, TLC

VARIABLES
    si,          \* the SegmentCommitInfo struct (segmentInfoPerCommit.go:12-27)
    sciLast,     \* history: the last SegmentCommitInfo call, its pre-state and result
    candidates,  \* history: nextWriteDelGen at each delete-write attempt, in order
    ctorDelGen,  \* history: the delGen handed to NewSegmentCommitInfo
    sciPanicked, \* a SegmentCommitInfo method panicked
    fis,         \* the segment's field infos: per field, its flags and attribute bag
    w,           \* the PerFieldPostingsWriter struct (perfield.go:60-65)
    consumers,   \* the FieldsConsumers the formats opened, in order of opening
    wCalls,      \* history: the addField calls, in order, with their outcome
    wStatus,     \* "open", "closed" (Close was called) or "panicked"
    r,           \* the read-side dispatcher under construction or returned
    producers,   \* the producers the formats opened, in order of opening
    q,           \* history: the last query on the reader and its result
    th,          \* per chain level: postingsArray, the table's column and term count
    arrays,      \* the ParallelPostingsArrays allocated so far, in order
    bytesUsed,   \* the byte counter the levels share
    thBase,      \* history: the counter before any column was allocated
    thLast       \* history: the last call on the chain, its pre-state and result

sciVars == <<si, sciLast, candidates, ctorDelGen, sciPanicked>>
wVars == <<w, consumers, wCalls, wStatus>>
rVars == <<r, producers, q>>
pfVars == <<fis, w, consumers, wCalls, wStatus, r, producers, q>>
thVars == <<th, arrays, bytesUsed, thBase, thLast>>

vars == <<si, sciLast, candidates, ctorDelGen, sciPanicked,
          fis, w, consumers, wCalls, wStatus, r, producers, q,
          th, arrays, bytesUsed, thBase, thLast>>

(***************************************************************************)
(* Bounds of the model.                                                    *)
(***************************************************************************)
\* delete-write attempts (successful or failed) per commit record
MaxAttempts == 4
\* largest delGen handed to the constructor
MaxCtorDelGen == 1
\* documents of the wrapped segment (info.DocCount())
DocCount == 1
\* largest value handed to setBufferedUpdatesGen
MaxBufGen == 1
\* files Files() may report
MaxFiles == 2
\* largest length the directory reports for one file
MaxFileLen == 1
\* largest suffix found among the persisted attributes of a segment being opened
MaxPersistedSuffix == 1
\* ParallelPostingsArrays allocated over the life of one chain
MaxArrays == 3
\* largest value of the shared byte counter before the chain allocates
MaxBaseBytes == 1

\* what FileLength(name) may answer: a length, or an error
FileLengthOutcomes ==
    [len : 0..MaxFileLen, err : {FALSE}] \cup {[len |-> 0, err |-> TRUE]}

(***************************************************************************)
(* SegmentCommitInfo                                                       *)
(***************************************************************************)

\* NewSegmentCommitInfo, the code after its "not implemented yet" stub line.
NewSegmentCommitInfo(dc, dg) ==
    [delCount           |-> dc,
     delGen             |-> dg,
     nextWriteDelGen    |-> IF dg # -1 THEN dg + 1 ELSE 1,
     sizeInBytes        |-> -1,
     BufferedUpdatesGen |-> 0]

NoCall == [op |-> "new", pre |-> <<>>, ret |-> <<>>]

InitSCI ==
    /\ \E dc \in 0..DocCount, dg \in {-1} \cup 1..MaxCtorDelGen :
          /\ si = NewSegmentCommitInfo(dc, dg)
          /\ ctorDelGen = dg
    /\ sciLast = NoCall
    /\ candidates = <<>>
    /\ sciPanicked = FALSE

\* advanceDelGen's effect on the struct: one tuple assignment, whose right-hand
\* sides are both evaluated before either field is written, then the cache reset.
advanceDelGenOf(s) ==
    [s EXCEPT !.delGen = s.nextWriteDelGen,
              !.nextWriteDelGen = s.delGen + 1,
              !.sizeInBytes = -1]

advanceDelGen ==
    /\ ~sciPanicked
    /\ Len(candidates) < MaxAttempts
    /\ si' = advanceDelGenOf(si)
    /\ sciLast' = [op |-> "advanceDelGen", pre |-> si, ret |-> <<>>]
    /\ candidates' = Append(candidates, si.nextWriteDelGen)
    /\ UNCHANGED <<ctorDelGen, sciPanicked, pfVars, thVars>>

\* a mutant of advanceNextWriteDelGenOf: the cached size is reset, as advanceDelGen does
advanceNextWriteDelGenResetsSize(s) ==
    [s EXCEPT !.nextWriteDelGen = @ + 1, !.sizeInBytes = -1]

\* advanceNextWriteDelGen's effect on the struct
advanceNextWriteDelGenOf(s) == [s EXCEPT !.nextWriteDelGen = @ + 1]

advanceNextWriteDelGen ==
    /\ ~sciPanicked
    /\ Len(candidates) < MaxAttempts
    /\ si' = advanceNextWriteDelGenOf(si)
    /\ sciLast' = [op |-> "advanceNextWriteDelGen", pre |-> si, ret |-> <<>>]
    /\ candidates' = Append(candidates, si.nextWriteDelGen)
    /\ UNCHANGED <<ctorDelGen, sciPanicked, pfVars, thVars>>

\* The loop of SizeInBytes over Files(): outs[i] is what FileLength reports for
\* the i-th file. The result holds the sum, the error
\* flag and the number of FileLength calls made.
RECURSIVE SumLengths(_, _, _)
SumLengths(outs, i, sum) ==
    IF i > Len(outs) THEN [sum |-> sum, err |-> FALSE, calls |-> Len(outs)]
    ELSE IF outs[i].err THEN [sum |-> 0, err |-> TRUE, calls |-> i]
    ELSE SumLengths(outs, i + 1, sum + outs[i].len)

\* a mutant of SizeInBytesOf: the cached value is never used
SizeInBytesIgnoresCache(s, outs) ==
    LET res == SumLengths(outs, 1, 0)
    IN  IF res.err THEN [s |-> s, ret |-> res]
        ELSE [s |-> [s EXCEPT !.sizeInBytes = res.sum], ret |-> res]

\* a mutant of SizeInBytesOf: the sum is stored before the error is looked at
SizeInBytesCachesOnError(s, outs) ==
    IF s.sizeInBytes = -1
    THEN LET res == SumLengths(outs, 1, 0)
         IN  [s |-> [s EXCEPT !.sizeInBytes = res.sum], ret |-> res]
    ELSE [s |-> s, ret |-> [sum |-> s.sizeInBytes, err |-> FALSE, calls |-> 0]]

\* SizeInBytes with the directory answering outs
SizeInBytesOf(s, outs) ==
    IF s.sizeInBytes = -1
    THEN LET res == SumLengths(outs, 1, 0)
         IN  IF res.err THEN [s |-> s, ret |-> res]
             ELSE [s   |-> [s EXCEPT !.sizeInBytes = res.sum],
                   ret |-> res]
    ELSE [s |-> s, ret |-> [sum |-> s.sizeInBytes, err |-> FALSE, calls |-> 0]]

SizeInBytes ==
    /\ ~sciPanicked
    /\ \E n \in 0..MaxFiles :
         \E outs \in [1..n -> FileLengthOutcomes] :
            LET res == SizeInBytesOf(si, outs)
            IN  /\ si' = res.s
                /\ sciLast' = [op |-> "SizeInBytes", pre |-> si,
                               ret |-> res.ret @@ [files |-> n]]
    /\ UNCHANGED <<candidates, ctorDelGen, sciPanicked, pfVars, thVars>>

setBufferedUpdatesGen ==
    /\ ~sciPanicked
    /\ \E v \in 0..MaxBufGen :
          si' = [si EXCEPT !.BufferedUpdatesGen = v, !.sizeInBytes = -1]
    /\ sciLast' = [op |-> "setBufferedUpdatesGen", pre |-> si, ret |-> <<>>]
    /\ UNCHANGED <<candidates, ctorDelGen, sciPanicked, pfVars, thVars>>

\* a mutant of HasDeletions: the delete count is looked at, not the generation
HasDeletionsByCount(s) == s.delCount > 0

HasDeletions(s) == s.delGen # -1

\* a call of HasDeletions: the record is left alone
HasDeletionsCall ==
    /\ ~sciPanicked
    /\ sciLast' = [op |-> "HasDeletions", pre |-> si, ret |-> HasDeletions(si)]
    /\ UNCHANGED <<si, candidates, ctorDelGen, sciPanicked, pfVars, thVars>>

\* a mutant of delCountInRange: the upper boundary is rejected
delCountBelowDocCount(delCount, docCount) == delCount >= 0 /\ delCount < docCount

\* the condition setDelCount asserts
delCountInRange(delCount, docCount) == delCount >= 0 /\ delCount <= docCount

\* setDelCount: assert2 panics before the assignment
setDelCount ==
    /\ ~sciPanicked
    /\ \E n \in -1..(DocCount + 1) :
          IF delCountInRange(n, DocCount)
          THEN /\ si' = [si EXCEPT !.delCount = n]
               /\ sciLast' = [op |-> "setDelCount", pre |-> si, ret |-> <<n, "ok">>]
               /\ UNCHANGED sciPanicked
          ELSE /\ si' = si
               /\ sciLast' = [op |-> "setDelCount", pre |-> si, ret |-> <<n, "panic">>]
               /\ sciPanicked' = TRUE
    /\ UNCHANGED <<candidates, ctorDelGen, pfVars, thVars>>

\* Clone, the code after its "not implemented yet" stub line: a struct literal
\* that names info, delCount, delGen and nextWriteDelGen; the fields it does
\* not name, sizeInBytes and BufferedUpdatesGen, get Go's zero value.
CloneOf(s) ==
    [delCount           |-> s.delCount,
     delGen             |-> s.delGen,
     nextWriteDelGen    |-> s.nextWriteDelGen,
     sizeInBytes        |-> 0,
     BufferedUpdatesGen |-> 0]

\* a call of Clone: the clone is recorded as the call's result
Clone ==
    /\ ~sciPanicked
    /\ sciLast' = [op |-> "Clone", pre |-> si, ret |-> CloneOf(si)]
    /\ UNCHANGED <<si, candidates, ctorDelGen, sciPanicked, pfVars, thVars>>

NextSCI ==
    \/ advanceDelGen
    \/ advanceNextWriteDelGen
    \/ SizeInBytes
    \/ setBufferedUpdatesGen
    \/ HasDeletionsCall
    \/ setDelCount
    \/ Clone

(***************************************************************************)
(* Per-field format dispatcher: shared definitions                         *)
(***************************************************************************)

Fields == {"a", "b", "c"}

\* state.fieldInfos.Values: the field infos in their fixed order
FieldOrder == <<"a", "b", "c">>

PER_FIELD_FORMAT_KEY == "PerFieldPostingsFormat.format"
PER_FIELD_SUFFIX_KEY == "PerFieldPostingsFormat.suffix"

AttrKeys == {PER_FIELD_FORMAT_KEY, PER_FIELD_SUFFIX_KEY}

\* An attribute bag: "" stands for a key that is not set, as FieldInfo.Attribute
\* and FieldInfo.PutAttribute report it.
EmptyBag == [k \in AttrKeys |-> ""]

Attribute(bag, key) == bag[key]

\* PutAttribute stores the value and returns the one it replaces
PutAttribute(bag, key, value) ==
    [bag |-> [bag EXCEPT ![key] = value], prev |-> bag[key]]

\* The format instances the policy may resolve a field to. i1 and i2 are two
\* distinct instances of one format name.
Instances == {"i1", "i2", "i3"}
Nil == "nil"

\* PostingsFormat.Name()
FormatName(inst) ==
    CASE inst = "i1" -> "Lucene41"
      [] inst = "i2" -> "Lucene41"
      [] inst = "i3" -> "Lucene41_1"

FormatNames == {FormatName(i) : i \in Instances}

EmptyMap == [x \in {} |-> x]

Digits == <<"0", "1", "2", "3", "4", "5", "6", "7", "8", "9">>

\* strconv.Itoa and fmt.Sprintf("%v", int) on a non-negative int: its decimal digits
RECURSIVE Itoa(_)
Itoa(n) ==
    IF n < 10 THEN Digits[n + 1]
    ELSE Itoa(n \div 10) \o Digits[(n % 10) + 1]

\* a mutant of _suffix: the separator is left out
suffixNoSeparator(formatName, suffix) == formatName \o suffix

_suffix(formatName, suffix) == formatName \o "_" \o suffix

Panic == "panic"

\* fullSegmentSuffix: panics unless the outer segment suffix is empty
fullSegmentSuffix(fieldName, outerSegmentSuffix, segmentSuffix) ==
    IF Len(outerSegmentSuffix) = 0 THEN segmentSuffix ELSE Panic

(***************************************************************************)
(* PerFieldPostingsWriter                                                  *)
(***************************************************************************)

\* newPerFieldPostingsWriter, on a write state with the given segment suffix
newPerFieldPostingsWriter(outer) ==
    [formats |-> EmptyMap, suffixes |-> EmptyMap, SegmentSuffix |-> outer]

\* a mutant of bumpSuffix: every instance is given suffix 0
bumpSuffixRestarts(suffixes, formatName) == 0

\* a mutant of bumpSuffix: a name's second instance reuses the name's last suffix
bumpSuffixReuses(suffixes, formatName) ==
    IF formatName \notin DOMAIN suffixes THEN 0 ELSE suffixes[formatName]

\* "bump the suffix" (perfield.go:92-96)
bumpSuffix(suffixes, formatName) ==
    IF formatName \notin DOMAIN suffixes THEN 0 ELSE suffixes[formatName] + 1

\* a mutant of attributeUnset: the assertion is compiled out
attributeAnything(prev) == TRUE

\* assert(... == "") on the value PutAttribute replaced (perfield.go:83, 117)
attributeUnset(prev) == prev = ""

\* One addField call: the field, the instance the policy resolves it to (or
\* nil), whether format.FieldsConsumer succeeds and whether the consumer's own
\* addField succeeds. The result holds the writer, the field infos and the
\* consumers as the call leaves them, and the call's record.
addFieldOf(wr, fi, cons, f, inst, openOk, addOk) ==
    LET call(res, c, sfx) ==
            [field |-> f, inst |-> inst, result |-> res, consumer |-> c,
             suffix |-> sfx, bag |-> fi[f].attrs]
        out(wr2, fi2, cons2, c) ==
            [w |-> wr2, fis |-> fi2, consumers |-> cons2, call |-> c]
    IN
    IF inst = Nil THEN out(wr, fi, cons, call(Panic, 0, -1))
    ELSE
    LET formatName == FormatName(inst)
        p1  == PutAttribute(fi[f].attrs, PER_FIELD_FORMAT_KEY, formatName)
        fi1 == [fi EXCEPT ![f].attrs = p1.bag]
    IN
    IF ~attributeUnset(p1.prev) THEN out(wr, fi1, cons, call(Panic, 0, -1))
    ELSE IF inst \in DOMAIN wr.formats
    THEN \* panic("not implemented yet")
         out(wr, fi1, cons, call(Panic, 0, -1))
    ELSE
    LET suffix == bumpSuffix(wr.suffixes, formatName)
        wr1 == [wr EXCEPT !.suffixes =
                   (formatName :> suffix) @@ wr.suffixes]
        segmentSuffix == fullSegmentSuffix(f, wr.SegmentSuffix,
                                           _suffix(formatName, Itoa(suffix)))
    IN
    IF segmentSuffix = Panic THEN out(wr1, fi1, cons, call(Panic, 0, suffix))
    ELSE IF ~openOk THEN out(wr1, fi1, cons, call("openerr", 0, suffix))
    ELSE
    LET id    == Len(cons) + 1
        cons1 == Append(cons, [segmentSuffix |-> segmentSuffix, inst |-> inst,
                               open |-> TRUE])
        wr2   == [wr1 EXCEPT !.formats =
                     (inst :> [consumer |-> id, suffix |-> suffix]) @@ wr1.formats]
        p2    == PutAttribute(fi1[f].attrs, PER_FIELD_SUFFIX_KEY, Itoa(suffix))
        fi2   == [fi1 EXCEPT ![f].attrs = p2.bag]
    IN
    IF ~attributeUnset(p2.prev) THEN out(wr2, fi2, cons1, call(Panic, id, suffix))
    ELSE out(wr2, fi2, cons1, call(IF addOk THEN "ok" ELSE "adderr", id, suffix))

\* addField is called for the indexed fields of the segment being written
addField ==
    /\ wStatus = "open"
    /\ \E f \in Fields, inst \in Instances \cup {Nil}, openOk, addOk \in BOOLEAN :
          /\ fis[f].indexed
          /\ LET res == addFieldOf(w, fis, consumers, f, inst, openOk, addOk)
             IN  /\ w' = res.w
                 /\ fis' = res.fis
                 /\ consumers' = res.consumers
                 /\ wCalls' = Append(wCalls, res.call)
                 /\ wStatus' = IF res.call.result = Panic THEN "panicked" ELSE "open"
    /\ UNCHANGED <<rVars, sciVars, thVars>>

\* PerFieldPostingsWriter.Close: util.Close on every consumer of w.formats
WriterClose ==
    /\ wStatus = "open"
    /\ consumers' = [i \in 1..Len(consumers) |->
                        IF \E inst \in DOMAIN w.formats : w.formats[inst].consumer = i
                        THEN [consumers[i] EXCEPT !.open = FALSE]
                        ELSE consumers[i]]
    /\ wStatus' = "closed"
    /\ UNCHANGED <<fis, w, wCalls, rVars, sciVars, thVars>>

(***************************************************************************)
(* PerFieldPostingsReader and PerFieldDocValuesReader                      *)
(***************************************************************************)

\* A producer is named by its place in producers; 0 is the nil producer.
NilProducer == 0

NoReader ==
    [kind |-> "none", status |-> "none", fields |-> EmptyMap,
     formats |-> EmptyMap, attempts |-> <<>>]

NoQuery == [method |-> "none", field |-> "", result |-> "", producer |-> 0]

\* util.CloseWhileSuppressingError / util.Close on every producer of formats
closeFormats(prods, formats) ==
    [i \in 1..Len(prods) |->
        IF \E k \in DOMAIN formats : formats[k] = i
        THEN [prods[i] EXCEPT !.open = FALSE]
        ELSE prods[i]]

\* the deferred function of newPerFieldPostingsReader, run when success is false
postingsOnFailure(prods, formats) == closeFormats(prods, formats)

\* segmentSuffix := formatName + "_" + suffix
readerKey(formatName, suffix) == formatName \o "_" \o suffix

\* a mutant of hasFormat: a field without a format attribute is not skipped
hasFormatAlways(formatName) == TRUE

\* formatName != "": a field without a format attribute has nothing to open
hasFormat(formatName) == formatName # ""

\* The loop of newPerFieldPostingsReader from field i on. The failAt-th call
\* of format.FieldsProducer fails (0: none does).
RECURSIVE postingsLoop(_, _, _, _, _)
postingsLoop(fi, i, ans, prods, failAt) ==
    IF i > Len(FieldOrder)
    THEN [ans EXCEPT !.status = "ok"] @@ [producers |-> prods]
    ELSE
    LET f          == FieldOrder[i]
        formatName == Attribute(fi[f].attrs, PER_FIELD_FORMAT_KEY)
        suffix     == Attribute(fi[f].attrs, PER_FIELD_SUFFIX_KEY)
        key        == readerKey(formatName, suffix)
    IN
    IF ~fi[f].indexed \/ ~hasFormat(formatName)
    THEN postingsLoop(fi, i + 1, ans, prods, failAt)
    ELSE IF suffix = ""
    THEN \* assert(suffix != ""): the panic runs the deferred cleanup
         [ans EXCEPT !.status = Panic]
            @@ [producers |-> postingsOnFailure(prods, ans.formats)]
    ELSE IF key \in DOMAIN ans.formats
    THEN postingsLoop(fi, i + 1,
                      [ans EXCEPT !.fields = (f :> ans.formats[key]) @@ ans.fields],
                      prods, failAt)
    ELSE IF Len(ans.attempts) + 1 = failAt
    THEN [ans EXCEPT !.status = "err",
                     !.attempts = Append(@, [key |-> key, ok |-> FALSE])]
            @@ [producers |-> postingsOnFailure(prods, ans.formats)]
    ELSE
    LET id == Len(prods) + 1
    IN  postingsLoop(fi, i + 1,
            [ans EXCEPT !.formats = (key :> id) @@ ans.formats,
                        !.fields = (f :> id) @@ ans.fields,
                        !.attempts = Append(@, [key |-> key, ok |-> TRUE])],
            Append(prods, [segmentSuffix |-> readerKey(formatName, suffix),
                           open |-> TRUE]),
            failAt)

\* The loop of newPerFieldDocValuesReader from field i on. The calls of
\* LoadDocValuesProducer whose numbers are in fails fail.
RECURSIVE docValuesLoop(_, _, _, _, _)
docValuesLoop(fi, i, ans, prods, fails) ==
    IF i > Len(FieldOrder)
    THEN [ans EXCEPT !.status = "ok"] @@ [producers |-> prods]
    ELSE
    LET f          == FieldOrder[i]
        formatName == Attribute(fi[f].attrs, PER_FIELD_FORMAT_KEY)
        suffix     == Attribute(fi[f].attrs, PER_FIELD_SUFFIX_KEY)
        key        == readerKey(formatName, suffix)
        \* ans.fields[fieldName] = ans.formats[segmentSuffix]: a missing key
        \* reads as the nil producer
        mapped(formats) ==
            IF key \in DOMAIN formats THEN formats[key] ELSE NilProducer
    IN
    IF ~fi[f].hasDocValues \/ ~hasFormat(formatName)
    THEN docValuesLoop(fi, i + 1, ans, prods, fails)
    ELSE IF key \in DOMAIN ans.formats
    THEN docValuesLoop(fi, i + 1,
                       [ans EXCEPT !.fields = (f :> mapped(ans.formats)) @@ ans.fields],
                       prods, fails)
    ELSE IF (Len(ans.attempts) + 1) \in fails
    THEN \* err != nil: nothing is stored in formats and the loop goes on
         docValuesLoop(fi, i + 1,
            [ans EXCEPT !.fields = (f :> mapped(ans.formats)) @@ ans.fields,
                        !.attempts = Append(@, [key |-> key, ok |-> FALSE])],
            prods, fails)
    ELSE
    LET id == Len(prods) + 1
        formats1 == (key :> id) @@ ans.formats
    IN  docValuesLoop(fi, i + 1,
            [ans EXCEPT !.formats = formats1,
                        !.fields = (f :> mapped(formats1)) @@ ans.fields,
                        !.attempts = Append(@, [key |-> key, ok |-> TRUE])],
            Append(prods, [segmentSuffix |-> readerKey(formatName, suffix),
                           open |-> TRUE]),
            fails)

newPerFieldPostingsReader ==
    /\ wStatus = "closed"
    /\ r.status = "none"
    /\ \E failAt \in 0..Len(FieldOrder) :
          LET res == postingsLoop(fis, 1, [NoReader EXCEPT !.kind = "postings"],
                                  producers, failAt)
          IN  /\ r' = [k \in DOMAIN NoReader |-> res[k]]
              /\ producers' = res.producers
    /\ UNCHANGED <<fis, wVars, q, sciVars, thVars>>

newPerFieldDocValuesReader ==
    /\ wStatus = "closed"
    /\ r.status = "none"
    /\ \E fails \in SUBSET (1..Len(FieldOrder)) :
          LET res == docValuesLoop(fis, 1, [NoReader EXCEPT !.kind = "docvalues"],
                                   producers, fails)
          IN  /\ r' = [k \in DOMAIN NoReader |-> res[k]]
              /\ producers' = res.producers
    /\ UNCHANGED <<fis, wVars, q, sciVars, thVars>>

\* The body the five query methods share: look the field up in the
\* field -> producer map and delegate; calling a method on the nil producer
\* is a nil dereference.
queryOf(rd, method, field) ==
    IF field \in DOMAIN rd.fields
    THEN IF rd.fields[field] = NilProducer
         THEN [method |-> method, field |-> field, result |-> Panic,
               producer |-> NilProducer]
         ELSE [method |-> method, field |-> field, result |-> "delegated",
               producer |-> rd.fields[field]]
    ELSE [method |-> method, field |-> field, result |-> "absent",
          producer |-> NilProducer]

\* one query on a reader that construction returned
queryStep(method) ==
    /\ r.status = "ok"
    /\ \E field \in Fields :
          /\ q' = queryOf(r, method, field)
          /\ r' = IF q'.result = Panic THEN [r EXCEPT !.status = Panic] ELSE r
    /\ UNCHANGED <<fis, wVars, producers, sciVars, thVars>>

Terms ==
    /\ r.kind = "postings"
    /\ queryStep("Terms")

Numeric ==
    /\ r.kind = "docvalues"
    /\ queryStep("Numeric")

Binary ==
    /\ r.kind = "docvalues"
    /\ queryStep("Binary")

Sorted ==
    /\ r.kind = "docvalues"
    /\ queryStep("Sorted")

SortedSet ==
    /\ r.kind = "docvalues"
    /\ queryStep("SortedSet")

\* PerFieldPostingsReader.Close / PerFieldDocValuesReader.Close
ReaderClose ==
    /\ r.status = "ok"
    /\ r' = [r EXCEPT !.status = "closed"]
    /\ producers' = closeFormats(producers, r.formats)
    /\ UNCHANGED <<fis, wVars, q, sciVars, thVars>>

(***************************************************************************)
(* TermsHashPerField and PostingsBytesStartArray                           *)
(* (invertedDocConsumerPerField.go)                                        *)
(***************************************************************************)

\* The chain has two levels: level 1's nextPerField is level 2, whose
\* nextPerField is nil.
Levels == {1, 2}
NoLevel == 0
nextPerField(l) == IF l = 1 THEN 2 ELSE NoLevel

NUM_BYTES_INT == 4
BYTES_PER_POSTING == 3 * NUM_BYTES_INT

\* the argument of consumer.createPostingsArray in Init
InitialPostingsSize == 2

\* bytesPerPosting() of the arrays a level's consumer creates
BytesPerPostingChoices == {BYTES_PER_POSTING, BYTES_PER_POSTING + NUM_BYTES_INT}

\* a nil postingsArray / a nil text-start column
NilArray == 0

\* arr.size * arr.bytesPerPosting() of the array a level holds
footprint(heap, a) == heap[a].size * heap[a].bytesPerPosting

\* a mutant of InitOf: the nil check is missing, every call allocates and charges
InitAlwaysAllocates(st, l) ==
    LET a == Len(st.arrays) + 1
        heap == Append(st.arrays, [size |-> InitialPostingsSize,
                                   bytesPerPosting |-> st.th[l].bytesPerPosting])
    IN  [st EXCEPT !.arrays = heap,
                   !.bytesUsed = @ + footprint(heap, a),
                   !.th[l].postingsArray = a,
                   !.ret = a]

\* PostingsBytesStartArray.Init on level l; ret is the array whose textStarts
\* column is returned
InitOf(st, l) ==
    IF st.th[l].postingsArray = NilArray
    THEN LET a == Len(st.arrays) + 1
             heap == Append(st.arrays, [size |-> InitialPostingsSize,
                                        bytesPerPosting |-> st.th[l].bytesPerPosting])
         IN  [st EXCEPT !.arrays = heap,
                        !.bytesUsed = @ + footprint(heap, a),
                        !.th[l].postingsArray = a,
                        !.ret = a]
    ELSE [st EXCEPT !.ret = st.th[l].postingsArray]

\* a mutant of ClearOf: the footprint is deducted but the array is kept
ClearKeepsArray(st, l) ==
    IF st.th[l].postingsArray # NilArray
    THEN [st EXCEPT !.bytesUsed = @ - footprint(st.arrays, st.th[l].postingsArray),
                    !.ret = NilArray]
    ELSE [st EXCEPT !.ret = NilArray]

\* PostingsBytesStartArray.Clear on level l; it returns nil
ClearOf(st, l) ==
    IF st.th[l].postingsArray # NilArray
    THEN [st EXCEPT !.bytesUsed = @ - footprint(st.arrays, st.th[l].postingsArray),
                    !.th[l].postingsArray = NilArray,
                    !.ret = NilArray]
    ELSE [st EXCEPT !.ret = NilArray]

\* The dedup table's side of the storage contract: it takes its column from
\* Init, at construction and before it is used again after a clear.
bytesHashInit(st, l) ==
    LET st1 == InitOf(st, l)
    IN  [st1 EXCEPT !.th[l].bytesStart = st1.ret]

\* bytesHash.Clear(false): the table drops its terms and takes the column
\* Clear returns
bytesHashClear(st, l) ==
    LET st1 == ClearOf(st, l)
    IN  [st1 EXCEPT !.th[l].count = 0, !.th[l].bytesStart = st1.ret]

\* TermsHashPerField.reset
RECURSIVE resetOf(_, _)
resetOf(st, l) ==
    LET st1 == bytesHashClear(st, l)
    IN  IF nextPerField(l) # NoLevel THEN resetOf(st1, nextPerField(l)) ELSE st1

\* TermsHashPerField.abort
RECURSIVE abortOf(_, _)
abortOf(st, l) ==
    LET st1 == resetOf(st, l)
    IN  IF nextPerField(l) # NoLevel THEN abortOf(st1, nextPerField(l)) ELSE st1

\* the state the operators above work on
thState == [th |-> th, arrays |-> arrays, bytesUsed |-> bytesUsed, ret |-> NilArray]

\* the record of one call in the history
thRecord(op, l, st) ==
    [op |-> op, level |-> l, ret |-> st.ret,
     pre |-> [th |-> th, bytesUsed |-> bytesUsed, arrays |-> Len(arrays)]]

\* Init called by the level's table; an allocation needs room under the bound
PostingsInit ==
    \E l \in Levels :
        LET st == bytesHashInit(thState, l)
        IN  /\ (th[l].postingsArray = NilArray => Len(arrays) < MaxArrays)
            /\ th' = st.th /\ arrays' = st.arrays /\ bytesUsed' = st.bytesUsed
            /\ thLast' = thRecord("Init", l, st)
            /\ UNCHANGED <<thBase, sciVars, pfVars>>

\* a term is added to the level's table, which holds a column with room for
\* it (the arrays do not grow: grow is "not implemented yet")
addTerm ==
    \E l \in Levels :
        LET st == [thState EXCEPT !.th[l].count = @ + 1]
        IN  /\ th[l].bytesStart # NilArray
            /\ th[l].count < arrays[th[l].bytesStart].size
            /\ th' = st.th /\ arrays' = st.arrays /\ bytesUsed' = st.bytesUsed
            /\ thLast' = thRecord("add", l, st)
            /\ UNCHANGED <<thBase, sciVars, pfVars>>

shrinkHash ==
    \E l \in Levels :
        LET st == bytesHashClear(thState, l)
        IN  /\ th' = st.th /\ arrays' = st.arrays /\ bytesUsed' = st.bytesUsed
            /\ thLast' = thRecord("shrinkHash", l, st)
            /\ UNCHANGED <<thBase, sciVars, pfVars>>

reset ==
    \E l \in Levels :
        LET st == resetOf(thState, l)
        IN  /\ th' = st.th /\ arrays' = st.arrays /\ bytesUsed' = st.bytesUsed
            /\ thLast' = thRecord("reset", l, st)
            /\ UNCHANGED <<thBase, sciVars, pfVars>>

abort ==
    \E l \in Levels :
        LET st == abortOf(thState, l)
        IN  /\ th' = st.th /\ arrays' = st.arrays /\ bytesUsed' = st.bytesUsed
            /\ thLast' = thRecord("abort", l, st)
            /\ UNCHANGED <<thBase, sciVars, pfVars>>

\* newTermsHashPerField for both levels, before their tables take a column
InitTH ==
    /\ \E b1, b2 \in BytesPerPostingChoices :
          th = [l \in Levels |->
                  [postingsArray |-> NilArray, bytesStart |-> NilArray, count |-> 0,
                   bytesPerPosting |-> IF l = 1 THEN b1 ELSE b2]]
    /\ arrays = <<>>
    /\ thBase \in 0..MaxBaseBytes
    /\ bytesUsed = thBase
    /\ thLast = [op |-> "new", level |-> NoLevel, ret |-> NilArray,
                 pre |-> [th |-> th, bytesUsed |-> bytesUsed, arrays |-> 0]]

\* a chain that is not touched
InitTHIdle ==
    /\ th = [l \in Levels |->
               [postingsArray |-> NilArray, bytesStart |-> NilArray, count |-> 0,
                bytesPerPosting |-> BYTES_PER_POSTING]]
    /\ arrays = <<>>
    /\ thBase = 0
    /\ bytesUsed = 0
    /\ thLast = [op |-> "new", level |-> NoLevel, ret |-> NilArray,
                 pre |-> [th |-> th, bytesUsed |-> bytesUsed, arrays |-> 0]]

(***************************************************************************)
(* Specifications                                                          *)
(***************************************************************************)

InitReaderNone ==
    /\ r = NoReader
    /\ producers = <<>>
    /\ q = NoQuery

\* A segment about to be written: no field has an attribute yet, and the
\* writer is fresh. The postings writer is handed indexed fields.
InitWriter ==
    /\ fis = [f \in Fields |->
                [indexed |-> TRUE, hasDocValues |-> FALSE, attrs |-> EmptyBag]]
    /\ \E outer \in {"", "Outer"} : w = newPerFieldPostingsWriter(outer)
    /\ consumers = <<>>
    /\ wCalls = <<>>
    /\ wStatus = "open"

\* the attribute bags a completed write leaves: none, or a format name and a suffix
PersistedBags ==
    {EmptyBag} \cup
    {[k \in AttrKeys |-> IF k = PER_FIELD_FORMAT_KEY THEN n ELSE Itoa(s)] :
        n \in FormatNames, s \in 0..MaxPersistedSuffix}

\* A segment written earlier, by any writer: its field infos as persisted.
InitPersisted ==
    /\ fis \in [Fields -> [indexed : BOOLEAN, hasDocValues : BOOLEAN,
                           attrs : PersistedBags]]
    /\ w = newPerFieldPostingsWriter("")
    /\ consumers = <<>>
    /\ wCalls = <<>>
    /\ wStatus = "closed"

\* no per-field dispatcher in use
InitNoDispatcher ==
    /\ fis = [f \in Fields |->
                [indexed |-> TRUE, hasDocValues |-> FALSE, attrs |-> EmptyBag]]
    /\ w = newPerFieldPostingsWriter("")
    /\ consumers = <<>>
    /\ wCalls = <<>>
    /\ wStatus = "closed"
    /\ InitReaderNone

\* one commit record, not touched
InitSCIIdle ==
    /\ si = NewSegmentCommitInfo(0, -1)
    /\ ctorDelGen = -1
    /\ sciLast = NoCall
    /\ candidates = <<>>
    /\ sciPanicked = FALSE

InitCommit == InitSCI /\ InitNoDispatcher /\ InitTHIdle

\* the commit record alone
SpecSCI == InitCommit /\ [][NextSCI]_vars

InitWrite == InitSCIIdle /\ InitWriter /\ InitReaderNone /\ InitTHIdle

NextWrite ==
    \/ addField
    \/ WriterClose
    \/ newPerFieldPostingsReader
    \/ Terms
    \/ ReaderClose

\* writing a segment's postings per field, then opening them
SpecWrite == InitWrite /\ [][NextWrite]_vars

InitRead == InitSCIIdle /\ InitPersisted /\ InitReaderNone /\ InitTHIdle

NextRead ==
    \/ newPerFieldPostingsReader
    \/ newPerFieldDocValuesReader
    \/ Terms
    \/ Numeric
    \/ Binary
    \/ Sorted
    \/ SortedSet
    \/ ReaderClose

\* opening a segment written earlier
SpecRead == InitRead /\ [][NextRead]_vars

InitTerms == InitSCIIdle /\ InitNoDispatcher /\ InitTH

NextTerms ==
    \/ PostingsInit
    \/ addTerm
    \/ shrinkHash
    \/ reset
    \/ abort

\* one two-level term builder chain
SpecTerms == InitTerms /\ [][NextTerms]_vars

(***************************************************************************)
(* Properties of the commit record (checked under SpecSCI)                 *)
(***************************************************************************)

\* C1: a successful delete write on (delGen = d, nextWriteDelGen = n) leaves
\* (delGen = n, nextWriteDelGen = n + 1): the next write generation is computed
\* from the delGen just assigned.
C1_AdvanceDelGenSequential ==
    sciLast.op = "advanceDelGen" =>
        /\ si.delGen = sciLast.pre.nextWriteDelGen
        /\ si.nextWriteDelGen = sciLast.pre.nextWriteDelGen + 1

\* C2: on a record constructed with delGen = -1, right after every successful
\* delete write nextWriteDelGen is strictly greater than the delGen it assigned.
C2_NextWriteExceedsDelGen ==
    (ctorDelGen = -1 /\ sciLast.op = "advanceDelGen") =>
        si.nextWriteDelGen > si.delGen

\* C3: on a record constructed with delGen = -1, no delete-write attempt,
\* successful or failed, uses a candidate generation an earlier attempt used.
C3_CandidateNeverReused ==
    ctorDelGen = -1 =>
        \A i, j \in 1..Len(candidates) :
            i < j => candidates[i] # candidates[j]

\* C4: a failed delete-write attempt adds exactly 1 to nextWriteDelGen and
\* leaves delGen, delCount, the cached sizeInBytes and BufferedUpdatesGen as
\* they were.
C4_FailedAttemptFrame ==
    sciLast.op = "advanceNextWriteDelGen" =>
        /\ si.nextWriteDelGen = sciLast.pre.nextWriteDelGen + 1
        /\ si.delGen = sciLast.pre.delGen
        /\ si.delCount = sciLast.pre.delCount
        /\ si.sizeInBytes = sciLast.pre.sizeInBytes
        /\ si.BufferedUpdatesGen = sciLast.pre.BufferedUpdatesGen

\* a failed attempt on a record that has deletes, a cached size and a
\* buffered-updates generation
C4_Witness ==
    /\ sciLast.op = "advanceNextWriteDelGen"
    /\ sciLast.pre.delGen # -1
    /\ sciLast.pre.delCount > 0
    /\ sciLast.pre.sizeInBytes > 0
    /\ sciLast.pre.BufferedUpdatesGen > 0
    /\ si.nextWriteDelGen = sciLast.pre.nextWriteDelGen + 1

\* C11: setDelCount(n) panics for every n < 0 and every n > docCount and
\* leaves delCount as it was; for every n with 0 <= n <= docCount it sets
\* delCount to n.
C11_SetDelCountRange ==
    sciLast.op = "setDelCount" =>
        LET n == sciLast.ret[1]
        IN  IF n < 0 \/ n > DocCount
            THEN /\ sciLast.ret[2] = "panic"
                 /\ sciPanicked
                 /\ si = sciLast.pre
            ELSE /\ sciLast.ret[2] = "ok"
                 /\ ~sciPanicked
                 /\ si = [sciLast.pre EXCEPT !.delCount = n]

\* the upper boundary docCount is accepted and changes delCount
C11_Witness ==
    /\ sciLast.op = "setDelCount"
    /\ sciLast.ret = <<DocCount, "ok">>
    /\ sciLast.pre.delCount = 0
    /\ si.delCount = DocCount

\* C12: Clone returns a record with the delGen, delCount and nextWriteDelGen
\* of the original and with the size cache unset (sizeInBytes = -1), whatever
\* the cache of the original holds.
C12_CloneStartsUnset ==
    sciLast.op = "Clone" =>
        /\ sciLast.ret.delGen = si.delGen
        /\ sciLast.ret.delCount = si.delCount
        /\ sciLast.ret.nextWriteDelGen = si.nextWriteDelGen
        /\ sciLast.ret.sizeInBytes = -1

C18_HasDeletionsIffDelGen ==
    sciLast.op = "HasDeletions" => (sciLast.ret <=> si.delGen # -1)

\* HasDeletions answers true on a record whose delete count is 0
C18_Witness ==
    /\ sciLast.op = "HasDeletions"
    /\ sciLast.ret = TRUE
    /\ si.delGen # -1
    /\ si.delCount = 0

(***************************************************************************)
(* Properties of the write-side dispatcher (checked under SpecWrite)       *)
(***************************************************************************)

\* the addField calls that reached the "first time we are seeing this format"
\* branch and took a suffix for their format name
Allocated(k) == wCalls[k].suffix # -1

\* the field of call k had not been handed to addField before
FreshField(k) == \A j \in 1..(k - 1) : wCalls[j].field # wCalls[k].field

\* C5: when addField is called for two different fields that resolve to the
\* same format instance, the second call is routed to the consumer opened for
\* the first (no second consumer) and both fields record the same suffix.
C5_SameInstanceSharesConsumer ==
    \A k, m \in 1..Len(wCalls) :
        ( /\ k < m
          /\ wCalls[k].result = "ok"
          /\ wCalls[m].inst = wCalls[k].inst
          /\ wCalls[m].field # wCalls[k].field
          /\ FreshField(m) )
        => /\ wCalls[m].result # Panic
           /\ wCalls[m].consumer = wCalls[k].consumer
           /\ Len(consumers) = Cardinality(DOMAIN w.formats)
           /\ Attribute(fis[wCalls[m].field].attrs, PER_FIELD_SUFFIX_KEY)
                = Attribute(fis[wCalls[k].field].attrs, PER_FIELD_SUFFIX_KEY)

\* C6: no two distinct format instances of one format name hold the same
\* suffix; the first time a name needs a suffix it gets 0, and each later time
\* it gets the next integer, which is the number of suffixes the name has
\* taken so far; an instance holds the suffix it was given when its consumer
\* was opened.
C6_DistinctInstancesDistinctSuffixes ==
    /\ \A i, j \in DOMAIN w.formats :
          (i # j /\ FormatName(i) = FormatName(j))
              => w.formats[i].suffix # w.formats[j].suffix
    /\ \A k \in 1..Len(wCalls) :
          Allocated(k) =>
              wCalls[k].suffix =
                  Cardinality({j \in 1..(k - 1) :
                                  /\ Allocated(j)
                                  /\ FormatName(wCalls[j].inst)
                                        = FormatName(wCalls[k].inst)})
    /\ \A i \in DOMAIN w.formats :
          \E k \in 1..Len(wCalls) :
              /\ wCalls[k].inst = i
              /\ wCalls[k].consumer = w.formats[i].consumer
              /\ wCalls[k].suffix = w.formats[i].suffix

\* both instances of one name and the instance of another name hold a suffix
C6_Witness ==
    /\ DOMAIN w.formats = Instances
    /\ w.formats["i1"].suffix = 1
    /\ w.formats["i2"].suffix = 0
    /\ w.formats["i3"].suffix = 0

\* every addField call so far returned a term consumer
AllCallsOk == \A k \in 1..Len(wCalls) : wCalls[k].result = "ok"

\* C7: when every addField call succeeded and the postings reader is built
\* from the attributes those calls recorded, each field is mapped to a producer
\* whose segment suffix is the one its consumer was opened under, and two
\* fields share a producer exactly when they share a consumer.
C7_RoutingRoundTrip ==
    (r.kind = "postings" /\ r.status \in {"ok", "closed"} /\ AllCallsOk) =>
        /\ \A k \in 1..Len(wCalls) :
              LET f == wCalls[k].field
              IN  /\ f \in DOMAIN r.fields
                  /\ r.fields[f] # NilProducer
                  /\ producers[r.fields[f]].segmentSuffix
                       = consumers[wCalls[k].consumer].segmentSuffix
        /\ \A k, m \in 1..Len(wCalls) :
              (r.fields[wCalls[k].field] = r.fields[wCalls[m].field])
                  <=> (wCalls[k].consumer = wCalls[m].consumer)

\* three fields written through three instances, two of one name, and read back
C7_Witness ==
    /\ r.kind = "postings"
    /\ r.status = "ok"
    /\ AllCallsOk
    /\ Len(wCalls) = Cardinality(Fields)
    /\ DOMAIN w.formats = Instances
    /\ DOMAIN r.fields = Fields

(***************************************************************************)
(* Properties of the read-side dispatchers (checked under SpecRead)        *)
(***************************************************************************)

\* the fields the reader under construction looks at
Eligible(f) ==
    IF r.kind = "postings" THEN fis[f].indexed ELSE fis[f].hasDocValues

\* the eligible fields with a persisted format name
Routed == {f \in Fields :
             Eligible(f) /\ Attribute(fis[f].attrs, PER_FIELD_FORMAT_KEY) # ""}

\* the persisted (format name, suffix) pair of a field
Pair(f) == <<Attribute(fis[f].attrs, PER_FIELD_FORMAT_KEY),
             Attribute(fis[f].attrs, PER_FIELD_SUFFIX_KEY)>>

\* C8: when opening a producer fails after another producer was opened in the
\* same construction, of either reader, construction returns the error and no
\* producer is left open.
C8_FailedConstructionClosesAll ==
    (\E j, k \in 1..Len(r.attempts) :
        j < k /\ r.attempts[j].ok /\ ~r.attempts[k].ok)
    => /\ r.status = "err"
       /\ \A i \in 1..Len(producers) : ~producers[i].open

\* C9: after construction, of either reader, two fields with equal persisted
\* (format name, suffix) map to the same producer, and exactly one producer
\* has been opened per distinct pair among the eligible fields.
C9_OneProducerPerPair ==
    (r.kind # "none" /\ r.status = "ok") =>
        /\ \A f, g \in Routed :
              Pair(f) = Pair(g) =>
                  /\ f \in DOMAIN r.fields
                  /\ g \in DOMAIN r.fields
                  /\ r.fields[f] = r.fields[g]
                  /\ r.fields[f] # NilProducer
        /\ Len(producers) = Cardinality({Pair(f) : f \in Routed})

\* C10: a field without a persisted format name is never mapped and opens no
\* producer: every open is for the key of an eligible field that has a format
\* name, and there are no more opens than such fields; and every query for a
\* field without a format name returns the absent result.
C10_NoFormatNoProducer ==
    /\ \A f \in Fields :
          Attribute(fis[f].attrs, PER_FIELD_FORMAT_KEY) = ""
              => f \notin DOMAIN r.fields
    /\ \A k \in 1..Len(r.attempts) :
          \E f \in Routed :
              r.attempts[k].key = Pair(f)[1] \o "_" \o Pair(f)[2]
    /\ Len(r.attempts) <= Cardinality(Routed)
    /\ (q.method # "none"
          /\ Attribute(fis[q.field].attrs, PER_FIELD_FORMAT_KEY) = "")
       => q.result = "absent"

\* a doc-values query for a field that has doc values but no format name, on
\* a reader that opened a producer for another field
C10_Witness ==
    /\ r.kind = "docvalues"
    /\ q.method = "SortedSet"
    /\ fis[q.field].hasDocValues
    /\ Attribute(fis[q.field].attrs, PER_FIELD_FORMAT_KEY) = ""
    /\ q.result = "absent"
    /\ Len(producers) > 0

\* C19: a reader that construction returned, of either kind, maps every field
\* of its field map to a producer that is not nil and that its formats map
\* holds under some key; and a query on it delegates to a producer or returns
\* the absent result, never reaching for a missing producer.
C19_MappedProducersAreLive ==
    /\ (r.kind # "none" /\ r.status = "ok") =>
          \A f \in DOMAIN r.fields :
              /\ r.fields[f] # NilProducer
              /\ \E key \in DOMAIN r.formats : r.formats[key] = r.fields[f]
    /\ q.method # "none" => q.result \in {"delegated", "absent"}

\* the call returned to its caller: with a term consumer or with an error
Returned(k) == wCalls[k].result # Panic

\* no later call was made for the field of call k
LastOnField(k) ==
    \A m \in (k + 1)..Len(wCalls) : wCalls[m].field # wCalls[k].field

\* C17: an addField call for a field whose bag already holds a format or a
\* suffix attribute (left by an earlier call, returned or failed) panics; every call that returned found both attributes
\* unset, and the format and the suffix a returned call recorded stay the
\* field's attributes for as long as addField is not called for the field
\* again (a call that can only panic).
C17_AttributesWriteOnce ==
    \A k \in 1..Len(wCalls) :
        /\ wCalls[k].bag # EmptyBag => ~Returned(k)
        /\ (wCalls[k].result \in {"ok", "adderr"} /\ LastOnField(k)) =>
              LET bag == fis[wCalls[k].field].attrs
              IN  /\ Attribute(bag, PER_FIELD_FORMAT_KEY) = FormatName(wCalls[k].inst)
                  /\ Attribute(bag, PER_FIELD_SUFFIX_KEY) = Itoa(wCalls[k].suffix)

\* a field that recorded a format and a suffix is handed to addField again,
\* resolved to an instance of another format name, and the call panics
C17_Witness ==
    \E k, m \in 1..Len(wCalls) :
        /\ k < m
        /\ wCalls[k].result = "ok"
        /\ wCalls[m].field = wCalls[k].field
        /\ wCalls[m].inst # Nil
        /\ FormatName(wCalls[m].inst) # FormatName(wCalls[k].inst)
        /\ Attribute(wCalls[m].bag, PER_FIELD_FORMAT_KEY) # ""
        /\ Attribute(wCalls[m].bag, PER_FIELD_SUFFIX_KEY) # ""
        /\ wCalls[m].result = Panic

\* the format name's suffix counter stands at the suffix call k allocated
CounterAt(k) ==
    LET formatName == FormatName(wCalls[k].inst)
    IN  /\ formatName \in DOMAIN w.suffixes
        /\ w.suffixes[formatName] = wCalls[k].suffix

levelFootprint(t, heap, l) ==
    IF t[l].postingsArray = NilArray THEN 0 ELSE footprint(heap, t[l].postingsArray)

\* the levels from l to the end of the chain
LevelsFrom(l) == {k \in Levels : k >= l}

RECURSIVE SumFootprint(_, _, _)
SumFootprint(t, heap, ls) ==
    IF ls = {} THEN 0
    ELSE LET l == CHOOSE k \in ls : TRUE
         IN  levelFootprint(t, heap, l) + SumFootprint(t, heap, ls \ {l})

levelEmpty(t, l) ==
    /\ t[l].count = 0
    /\ t[l].postingsArray = NilArray
    /\ t[l].bytesStart = NilArray

\* C15: the shared counter is its pre-allocation value plus the footprint of
\* the columns that are allocated; an Init on allocated columns returns the
\* same column and neither allocates nor charges, an Init on cleared columns
\* allocates an array never held before and charges its footprint, and a
\* Clear deducts the footprint once and nothing when nothing is allocated.
C15_AdapterAccounting ==
    /\ bytesUsed = thBase + SumFootprint(th, arrays, Levels)
    /\ thLast.op = "Init" =>
          LET l == thLast.level
              held == thLast.pre.th[l].postingsArray
          IN  IF held # NilArray
              THEN /\ thLast.ret = held
                   /\ th[l].postingsArray = held
                   /\ Len(arrays) = thLast.pre.arrays
                   /\ bytesUsed = thLast.pre.bytesUsed
              ELSE /\ thLast.ret = thLast.pre.arrays + 1
                   /\ th[l].postingsArray = thLast.ret
                   /\ Len(arrays) = thLast.pre.arrays + 1
                   /\ bytesUsed = thLast.pre.bytesUsed + footprint(arrays, thLast.ret)
    /\ thLast.op = "shrinkHash" =>
          LET l == thLast.level
          IN  /\ th[l].postingsArray = NilArray
              /\ bytesUsed = thLast.pre.bytesUsed - levelFootprint(thLast.pre.th, arrays, l)
              /\ Len(arrays) = thLast.pre.arrays

\* an Init that allocated again after a Clear: more arrays than levels
C15_Witness ==
    /\ thLast.op = "Init"
    /\ thLast.pre.th[thLast.level].postingsArray = NilArray
    /\ Len(arrays) > Cardinality(Levels)
    /\ bytesUsed > thBase

\* C16: after abort on a level, that level and the levels behind it hold no
\* terms and no columns, and the counter has lost exactly the footprint of
\* the columns they held before the call; from the head of the chain the
\* counter is back at its pre-allocation value.  A reset or abort on levels
\* that are already empty changes nothing.
C16_AbortEmptiesChainOnce ==
    /\ thLast.op = "abort" =>
          /\ \A l \in LevelsFrom(thLast.level) : levelEmpty(th, l)
          /\ \A l \in Levels \ LevelsFrom(thLast.level) : th[l] = thLast.pre.th[l]
          /\ bytesUsed = thLast.pre.bytesUsed
                          - SumFootprint(thLast.pre.th, arrays, LevelsFrom(thLast.level))
          /\ thLast.level = 1 => bytesUsed = thBase
    /\ (/\ thLast.op \in {"abort", "reset"}
        /\ \A l \in LevelsFrom(thLast.level) : levelEmpty(thLast.pre.th, l))
          => /\ th = thLast.pre.th
             /\ bytesUsed = thLast.pre.bytesUsed

\* abort from the head of a chain whose two levels held terms and columns
C16_Witness ==
    /\ thLast.op = "abort"
    /\ thLast.level = 1
    /\ \A l \in Levels : /\ thLast.pre.th[l].postingsArray # NilArray
                         /\ thLast.pre.th[l].count > 0
    /\ bytesUsed < thLast.pre.bytesUsed

====
